---- MODULE Spec2Model ----
(***************************************************************************)
(* agentlog: the tail watcher (tailFile / readNewEntries / runTail) over   *)
(* .agentlog/errors.jsonl, with the external writers of the log file, and  *)
(* the one-shot commands over the same file: errors (readErrors,           *)
(* runErrors), doctor (checkHealth) and prime (generatePrimeSummary).      *)
(*                                                                         *)
(* The log file is a sequence of bytes.  A byte is a one-token string:     *)
(*   "LF"  the line terminator,  " " a blank,  "x" a byte that is not JSON,*)
(*   "1","2",... the opening brace and the four fields of an entry (one    *)
(*   distinct body per entry written), "}" the closing brace of a JSON     *)
(*   object, "{" the opening brace of an object without fields, "0" a     *)
(*   JSON value that is no object, and "L" a run of non-LF bytes longer    *)
(*   than bufio.MaxScanTokenSize.                                          *)
(*                                                                         *)
(* errors.jsonl is a regular file: os.Open fails when the file is absent   *)
(* or not permitted, a read of the scanner fails on a line too long, and   *)
(* file.Seek to a non-negative offset does not fail.                       *)
(***************************************************************************)
EXTENDS Integers, Sequences, FiniteSets, TLC

\* ---- bounds of the model ----
MaxLines == 2     \* lines the external writers write
MaxEmit == 3      \* entries the watcher writes to w
MaxFileLines == 2 \* lines of a file of mixed lines a command is run on
MaxEntries == 4   \* lines of a file of entry lines a command is run on
MaxBodies == 4    \* distinct entries in those files
MaxQueryEntries == 2 \* lines of a file a query with flags is run on
MaxQueryBodies == 6  \* distinct entries in those files

VARIABLES
    fileExists,   \* errors.jsonl exists
    content,      \* its bytes
    wpending,     \* bytes of a line an external writer has not yet written
    nextId,       \* number of the next entry an external writer logs
    nOther,       \* number of other lines the external writers wrote
    pc,           \* position of runTail / tailFile
    offset,       \* tailFile: offset
    err,          \* tailFile: err of readNewEntries ("nil" while it runs)
    ret,          \* value returned by tailFile
    buf,          \* bufio.Scanner: bytes read and not yet split
    pos,          \* position of the open file after the scanner's reads
    scanErr,      \* bufio.Scanner: Err() is ErrTooLong
    handles,      \* number of open file handles of this process
    emitted,      \* entries written to w, in order
    cancelled,    \* ctx.Done() is closed
    msg,          \* what runTail printed
    runErr,       \* what runTail returned
    existing,     \* history: valid entries of the file when tailFile opened it
    appendOnly,   \* history: no truncation or removal since tailFile started
    wholeLines,   \* history: only whole lines were written since tailFile started
    signalState,  \* history: "POLLING" when the signal was raised in that state
    agentlogDir,  \* the .agentlog directory: "absent", "ok", or "denied" (not searchable)
    fileSize,     \* info.Size() of errors.jsonl as the one-shot commands see it
    cmd,          \* the one-shot command that ran ("none" before it)
    entries,      \* readErrors: the entries it returned
    readErr,      \* readErrors: the error it returned
    stdout,       \* runErrors: what it printed
    cmdErr,       \* the error runErrors / generatePrimeSummary returned
    result,       \* checkHealth: the HealthResult it returned
    summary,      \* generatePrimeSummary: the PrimeSummary it returned
    errorsSource, \* flag --source of the errors command
    errorsType,   \* flag --type
    errorsSince,  \* flag --since, and the argument of parseSince
    limit,        \* flag --limit (errorsLimit)
    sinceTime,    \* parseSince: the time it returned
    sinceErr,     \* parseSince: the error it returned
    filtered,     \* filterErrors: the entries it returned
    entry,        \* formatTailEntry: its argument entry
    jsonMode,     \* formatTailEntry: its argument jsonMode
    output,       \* formatTailEntry: the text it returned
    decoded       \* json.Unmarshal of that text: the entry it filled

envVars == <<fileExists, content, wpending, nextId, nOther>>
tailVars == <<pc, offset, err, ret, buf, pos, scanErr, handles, emitted, msg, runErr>>
histVars == <<existing, appendOnly, wholeLines, signalState>>
fsVars == <<agentlogDir, fileSize>>
outVars == <<cmd, entries, readErr, stdout, cmdErr, result, summary>>
flagVars == <<errorsSource, errorsType, errorsSince, limit>>
callVars == <<sinceTime, sinceErr, filtered, entry, jsonMode, output, decoded>>
cmdVars == <<agentlogDir, fileSize, cmd, entries, readErr, stdout, cmdErr, result, summary,
             errorsSource, errorsType, errorsSince, limit,
             sinceTime, sinceErr, filtered, entry, jsonMode, output, decoded>>
vars == <<fileExists, content, wpending, nextId, nOther, pc, offset, err, ret,
          buf, pos, scanErr, handles, emitted, cancelled, msg, runErr,
          existing, appendOnly, wholeLines, signalState,
          agentlogDir, fileSize, cmd, entries, readErr, stdout, cmdErr, result, summary,
          errorsSource, errorsType, errorsSince, limit,
          sinceTime, sinceErr, filtered, entry, jsonMode, output, decoded>>

\* ---- bytes and lines ----
LF == "LF"
SP == " "
Punct == {LF, SP, "x", "{", "}", "L"}

EntryBody(i) == ToString(i)

EntryLine(i) == <<EntryBody(i), "}", LF>>
BlankLine == <<SP, LF>>
GarbageLine == <<"x", LF>>
LongLine == <<"L", LF>>
OtherLines == {BlankLine, GarbageLine, LongLine}

Max(a, b) == IF a > b THEN a ELSE b

\* index of the first LF of data, 0 when there is none
RECURSIVE IndexLF(_, _)
IndexLF(data, i) ==
    IF i > Len(data) THEN 0
    ELSE IF data[i] = LF THEN i ELSE IndexLF(data, i + 1)

\* bufio.ScanLines at the head of data: the next token and what follows it.
\* At end of file the final unterminated line is a token too.
ScanLines(data) ==
    LET i == IndexLF(data, 1) IN
    IF i = 0 THEN [line |-> data, rest |-> <<>>]
    ELSE [line |-> SubSeq(data, 1, i - 1), rest |-> SubSeq(data, i + 1, Len(data))]

\* the scanner cannot hold the line: bufio.ErrTooLong
TooLong(line) == \E i \in 1..Len(line) : line[i] = "L"

RECURSIVE TrimSpace(_)
TrimSpace(line) ==
    IF line = <<>> THEN line
    ELSE IF Head(line) = SP THEN TrimSpace(Tail(line))
    ELSE IF line[Len(line)] = SP THEN TrimSpace(SubSeq(line, 1, Len(line) - 1))
    ELSE line

\* json.Unmarshal(line, &entry) for entry of type ErrorEntry
Unmarshal(line) ==
    IF Len(line) = 2 /\ line[1] \notin Punct /\ line[2] = "}"
    THEN [ok |-> TRUE, entry |-> line[1]]
    ELSE IF line = <<"{", "}">>
    THEN [ok |-> TRUE, entry |-> ""]
    ELSE [ok |-> FALSE, entry |-> ""]

\* the body of the scan loops of tailFile and readNewEntries: what is
\* written to w for one token
LoopBody(line) ==
    LET t == TrimSpace(line) IN
    IF t = <<>> THEN <<>>
    ELSE IF ~Unmarshal(t).ok THEN <<>>
    ELSE <<Unmarshal(t).entry>>

\* all the entries a scan loop writes for data (it stops at a line too long)
RECURSIVE ScanAll(_)
ScanAll(data) ==
    IF data = <<>> THEN <<>>
    ELSE LET tok == ScanLines(data) IN
         IF TooLong(tok.line) THEN <<>>
         ELSE LoopBody(tok.line) \o ScanAll(tok.rest)

\* the entries of the valid lines of data, in file order: every line is
\* taken on its own, whatever the lines around it
RECURSIVE ValidEntries(_)
ValidEntries(data) ==
    IF data = <<>> THEN <<>>
    ELSE LET tok == ScanLines(data) IN
         LoopBody(tok.line) \o ValidEntries(tok.rest)

\* ---- the states of the tail watcher ----
state ==
    CASE pc \in {"stat", "open"} -> "INITIALIZING"
      [] pc = "replay" -> "REPLAYING_EXISTING"
      [] pc \in {"select", "poll"} -> "POLLING"
      [] OTHER -> IF ret = "Canceled" THEN "STOPPED" ELSE "ERRORED"

Terminal == {"STOPPED", "ERRORED"}

\* ---- the one-shot commands before they run ----
\* what runErrors printed: a text, or the entries formatHuman lists
NoOutput == [text |-> "", entries |-> <<>>, total |-> 0]

\* the zero PrimeSummary
ZeroSummary ==
    [TotalErrors |-> 0, LastHourErrors |-> 0, Last24hErrors |-> 0,
     TopErrorTypes |-> <<>>, TopSources |-> <<>>, ActionableTip |-> <<>>,
     NoLogFile |-> FALSE]

\* --limit of the errors command (its default)
errorsLimit == 10

\* the zero ErrorEntry: empty strings and a nil Context
ZeroEntry ==
    [Timestamp |-> [layout |-> "", t |-> 0], Source |-> "", ErrorType |-> "",
     Message |-> "", Context |-> [nil |-> TRUE, m |-> <<>>]]

\* the flags of the errors command at their defaults
NoFlags ==
    /\ errorsSource = ""
    /\ errorsType = ""
    /\ errorsSince = [layout |-> "", t |-> 0]
    /\ limit = errorsLimit

\* no function has been called on its own
NoCall ==
    /\ sinceTime = 0
    /\ sinceErr = "nil"
    /\ filtered = <<>>
    /\ entry = ZeroEntry
    /\ jsonMode = FALSE
    /\ output = <<>>
    /\ decoded = ZeroEntry

NoCommand ==
    /\ cmd = "none"
    /\ entries = <<>>
    /\ readErr = "nil"
    /\ stdout = NoOutput
    /\ cmdErr = "nil"
    /\ result = [Status |-> "", Checks |-> <<>>, Summary |-> <<>>]
    /\ summary = ZeroSummary

Init ==
    /\ fileExists \in BOOLEAN
    /\ nOther = 0
    /\ content = <<>>
    /\ wpending = <<>>
    /\ nextId = 1
    /\ pc = "stat"
    /\ offset = 0
    /\ err = "nil"
    /\ ret = "none"
    /\ buf = <<>>
    /\ pos = 0
    /\ scanErr = FALSE
    /\ handles = 0
    /\ emitted = <<>>
    /\ cancelled = FALSE
    /\ msg = ""
    /\ runErr = "none"
    /\ existing = <<>>
    /\ appendOnly = TRUE
    /\ wholeLines = TRUE
    /\ signalState = "none"
    /\ agentlogDir = "ok"
    /\ fileSize = 0
    /\ NoCommand /\ NoFlags /\ NoCall

\* ---- external writers of the log file ----
Started == pc # "stat"

\* the lines written so far
Written == (nextId - 1) + nOther

\* tailFile has not returned; what the writers do to the file afterwards
\* is of no consequence to it
Running == pc \notin {"returned", "exit"}

WriterAppendEntry ==
    /\ UNCHANGED cmdVars
    /\ Running
    /\ fileExists /\ wpending = <<>>
    /\ Written < MaxLines
    /\ content' = content \o EntryLine(nextId)
    /\ nextId' = nextId + 1
    /\ UNCHANGED <<fileExists, wpending, nOther, cancelled>>
    /\ UNCHANGED tailVars /\ UNCHANGED histVars

WriterAppendOther ==
    /\ UNCHANGED cmdVars
    /\ Running
    /\ fileExists /\ wpending = <<>>
    /\ Written < MaxLines
    /\ \E line \in OtherLines : content' = content \o line
    /\ nOther' = nOther + 1
    /\ UNCHANGED <<fileExists, wpending, nextId, cancelled>>
    /\ UNCHANGED tailVars /\ UNCHANGED histVars

\* a writer whose write of one entry line reaches the file in two parts
WriterPartial ==
    /\ UNCHANGED cmdVars
    /\ Running
    /\ fileExists /\ wpending = <<>>
    /\ Written < MaxLines
    /\ \E k \in 1..(Len(EntryLine(nextId)) - 1) :
        /\ content' = content \o SubSeq(EntryLine(nextId), 1, k)
        /\ wpending' = SubSeq(EntryLine(nextId), k + 1, Len(EntryLine(nextId)))
    /\ nextId' = nextId + 1
    /\ wholeLines' = FALSE
    /\ UNCHANGED <<fileExists, nOther, cancelled, existing, appendOnly, signalState>>
    /\ UNCHANGED tailVars

WriterFinish ==
    /\ UNCHANGED cmdVars
    /\ Running
    /\ fileExists /\ wpending # <<>>
    /\ content' = content \o wpending
    /\ wpending' = <<>>
    /\ UNCHANGED <<fileExists, nextId, nOther, cancelled>>
    /\ UNCHANGED tailVars /\ UNCHANGED histVars

Truncate ==
    /\ UNCHANGED cmdVars
    /\ Running
    /\ fileExists /\ wpending = <<>> /\ content # <<>>
    /\ content' = <<>>
    /\ appendOnly' = (appendOnly /\ ~Started)
    /\ UNCHANGED <<fileExists, wpending, nextId, nOther, cancelled, existing, wholeLines, signalState>>
    /\ UNCHANGED tailVars

Remove ==
    /\ UNCHANGED cmdVars
    /\ Running
    /\ fileExists
    /\ fileExists' = FALSE
    /\ content' = <<>>
    /\ wpending' = <<>>
    /\ appendOnly' = (appendOnly /\ ~Started)
    /\ UNCHANGED <<nextId, nOther, cancelled, existing, wholeLines, signalState>>
    /\ UNCHANGED tailVars

Create ==
    /\ UNCHANGED cmdVars
    /\ Running
    /\ ~fileExists
    /\ fileExists' = TRUE
    /\ UNCHANGED <<content, wpending, nextId, nOther, cancelled>>
    /\ UNCHANGED tailVars /\ UNCHANGED histVars

\* SIGINT / SIGTERM: the goroutine of runTail calls cancel()
Cancel ==
    /\ UNCHANGED cmdVars
    /\ Running /\ ~cancelled
    /\ cancelled' = TRUE
    /\ signalState' = IF state = "POLLING" THEN "POLLING" ELSE "before"
    /\ UNCHANGED envVars /\ UNCHANGED tailVars
    /\ UNCHANGED <<existing, appendOnly, wholeLines>>

\* ---- tailFile ----

\* (variant: the file is opened for writing and truncated)
OpenFile_trunc(data) == <<>>

\* os.Open(filePath): the file is opened O_RDONLY; the bytes it holds after
\* the call
OpenFile(data) == data

\* (variant: the reads start at the first byte of the file)
ReadFrom_all(off, data) ==
    [buf |-> data, pos |-> Len(data)]

\* (variant: the position is taken from the size of the file)
ReadFrom_size(off, data) ==
    [buf |-> SubSeq(data, off + 1, Len(data)), pos |-> Len(data)]

\* file.Seek(off, io.SeekStart) on a file holding data, then the scanner's
\* reads up to the end of the file: the bytes read and the position reached.
\* Seeking past the end is no error; the reads then return nothing.
ReadFrom(off, data) ==
    [buf |-> SubSeq(data, off + 1, Len(data)), pos |-> Max(off, Len(data))]

\* the token at the head of the scanner's buffer goes through the loop body
\* (scanner.Scan, TrimSpace, json.Unmarshal, fmt.Fprintln)
ScanStep ==
    /\ buf # <<>> /\ ~scanErr
    /\ LET tok == ScanLines(buf) IN
        IF TooLong(tok.line)
        THEN /\ scanErr' = TRUE
             /\ UNCHANGED <<buf, emitted>>
        ELSE /\ buf' = tok.rest
             /\ emitted' = emitted \o LoopBody(tok.line)
             /\ UNCHANGED scanErr

\* the scan loop is over: scanner.Scan returned false
ScanOver == buf = <<>> \/ scanErr

\* return e from tailFile: the deferred file.Close and ticker.Stop run
Return(e, opened) ==
    /\ pc' = "returned"
    /\ ret' = e
    /\ handles' = handles - opened

\* os.Stat(filePath); os.IsNotExist(err)
TailFileStat ==
    /\ UNCHANGED cmdVars
    /\ pc = "stat"
    /\ IF ~fileExists
       THEN Return("NotExist", 0)
       ELSE /\ pc' = "open"
            /\ UNCHANGED <<ret, handles>>
    /\ wholeLines' = (wpending = <<>>)
    /\ UNCHANGED <<offset, err, buf, pos, scanErr, emitted, msg, runErr>>
    /\ UNCHANGED <<cancelled, existing, appendOnly, signalState>> /\ UNCHANGED envVars

\* os.Open(filePath), then the scanner reads the file to its end
TailFileOpen ==
    /\ UNCHANGED cmdVars
    /\ pc = "open"
    /\ IF ~fileExists
       THEN /\ Return("NotExist", 0)
            /\ UNCHANGED <<buf, pos, scanErr, existing>>
       ELSE \E permitted \in BOOLEAN :
            IF ~permitted
            THEN /\ Return("Permission", 0)
                 /\ UNCHANGED <<buf, pos, scanErr, existing>>
            ELSE /\ pc' = "replay"
                 /\ handles' = handles + 1
                 /\ buf' = ReadFrom(0, content).buf
                 /\ pos' = ReadFrom(0, content).pos
                 /\ scanErr' = FALSE
                 /\ existing' = ValidEntries(content)
                 /\ UNCHANGED ret
    /\ UNCHANGED <<offset, err, emitted, msg, runErr>>
    /\ UNCHANGED <<cancelled, appendOnly, wholeLines, signalState>>
    /\ content' = OpenFile(content)
    /\ UNCHANGED <<fileExists, wpending, nextId, nOther>>

\* one turn of the loop over the existing entries
ReplayScan ==
    /\ UNCHANGED cmdVars
    /\ pc = "replay"
    /\ ScanStep
    /\ UNCHANGED <<pc, offset, err, ret, pos, handles, msg, runErr>>
    /\ UNCHANGED cancelled /\ UNCHANGED histVars /\ UNCHANGED envVars

\* scanner.Err(), then file.Seek(0, io.SeekCurrent)
ReplayDone ==
    /\ UNCHANGED cmdVars
    /\ pc = "replay"
    /\ ScanOver
    /\ IF scanErr
       THEN /\ Return("ReadError", 1)
            /\ UNCHANGED offset
       ELSE /\ offset' = pos
            /\ pc' = "select"
            /\ UNCHANGED <<ret, handles>>
    /\ UNCHANGED <<err, buf, pos, scanErr, emitted, msg, runErr>>
    /\ UNCHANGED cancelled /\ UNCHANGED histVars /\ UNCHANGED envVars

\* (variant: the case leaves the select, not tailFile, and the loop goes on)
SelectCtxDone_break ==
    /\ pc = "select"
    /\ cancelled
    /\ UNCHANGED vars

\* case <-ctx.Done(): return ctx.Err()
SelectCtxDone ==
    /\ UNCHANGED cmdVars
    /\ pc = "select"
    /\ cancelled
    /\ Return("Canceled", 1)
    /\ UNCHANGED <<offset, err, buf, pos, scanErr, emitted, msg, runErr>>
    /\ UNCHANGED cancelled /\ UNCHANGED histVars /\ UNCHANGED envVars

\* (variant: a missing file sends tailFile back to its start)
OnReadError_restart(e) == IF e = "NotExist" THEN "open" ELSE "select"

\* (variant: every error of readNewEntries is retried)
OnReadError_continue(e) == "select"

\* (variant: every error of readNewEntries ends the session)
OnReadError_return(e) == "returned"

\* where tailFile goes when readNewEntries returned the error e
OnReadError(e) == IF e = "NotExist" THEN "returned" ELSE "select"

\* readNewEntries returned the error e, its deferred file.Close having closed
\* the `opened` files it had opened: tailFile returns e or continues
PollFailed(e, opened) ==
    /\ err' = e
    /\ pc' = OnReadError(e)
    /\ IF OnReadError(e) = "returned"
       THEN ret' = e /\ handles' = handles - opened - 1
       ELSE ret' = ret /\ handles' = handles - opened

\* case <-ticker.C: readNewEntries opens the file, seeks to offset, and its
\* scanner reads to the end of the file
SelectTick ==
    /\ UNCHANGED cmdVars
    /\ pc = "select"
    /\ Len(emitted) + Len(ScanAll(ReadFrom(offset, content).buf)) <= MaxEmit
    /\ IF ~fileExists
       THEN PollFailed("NotExist", 0) /\ UNCHANGED <<buf, pos, scanErr>>
       ELSE \E permitted \in BOOLEAN :
            IF ~permitted
            THEN PollFailed("Permission", 0) /\ UNCHANGED <<buf, pos, scanErr>>
            ELSE /\ pc' = "poll"
                 /\ handles' = handles + 1
                 /\ buf' = ReadFrom(offset, content).buf
                 /\ pos' = ReadFrom(offset, content).pos
                 /\ scanErr' = FALSE
                 /\ err' = "nil"
                 /\ UNCHANGED ret
    /\ UNCHANGED <<offset, emitted, msg, runErr>>
    /\ UNCHANGED cancelled /\ UNCHANGED histVars
    /\ content' = OpenFile(content)
    /\ UNCHANGED <<fileExists, wpending, nextId, nOther>>

\* one turn of the loop of readNewEntries
PollScan ==
    /\ UNCHANGED cmdVars
    /\ pc = "poll"
    /\ ScanStep
    /\ UNCHANGED <<pc, offset, err, ret, pos, handles, msg, runErr>>
    /\ UNCHANGED cancelled /\ UNCHANGED histVars /\ UNCHANGED envVars

\* the offset tailFile records when readNewEntries returns (newOffset, e)
RecordOffset(old, newOffset, e) == IF e # "nil" THEN old ELSE newOffset

\* readNewEntries returns: file.Seek(0, io.SeekCurrent), scanner.Err(), the
\* deferred file.Close; tailFile records the offset or continues
PollReturn ==
    /\ UNCHANGED cmdVars
    /\ pc = "poll"
    /\ ScanOver
    /\ IF scanErr
       THEN /\ PollFailed("TooLong", 1)
            /\ offset' = RecordOffset(offset, pos, "TooLong")
       ELSE /\ err' = "nil"
            /\ offset' = RecordOffset(offset, pos, "nil")
            /\ pc' = "select"
            /\ handles' = handles - 1
            /\ UNCHANGED ret
    /\ UNCHANGED <<buf, pos, scanErr, emitted, msg, runErr>>
    /\ UNCHANGED cancelled /\ UNCHANGED histVars /\ UNCHANGED envVars

\* ---- runTail ----
InitGuidance == "No errors file found. Run 'agentlog init' to set up."

\* (variant: a missing file is reported like any other error)
RunTailOutput_plain(e) ==
    IF e = "Canceled" THEN [msg |-> "", err |-> "nil"]
    ELSE [msg |-> "", err |-> e]

\* what runTail prints and returns for the error e of tailFile
RunTailOutput(e) ==
    IF e = "Canceled" THEN [msg |-> "", err |-> "nil"]
    ELSE IF e = "NotExist" THEN [msg |-> InitGuidance, err |-> "nil"]
    ELSE [msg |-> "", err |-> e]

RunTailReturn ==
    /\ UNCHANGED cmdVars
    /\ pc = "returned"
    /\ pc' = "exit"
    /\ msg' = RunTailOutput(ret).msg
    /\ runErr' = RunTailOutput(ret).err
    /\ UNCHANGED <<offset, err, ret, buf, pos, scanErr, handles, emitted>>
    /\ UNCHANGED cancelled /\ UNCHANGED histVars /\ UNCHANGED envVars

Next ==
    \/ WriterAppendEntry \/ WriterAppendOther \/ WriterPartial \/ WriterFinish
    \/ Truncate \/ Remove \/ Create \/ Cancel
    \/ TailFileStat \/ TailFileOpen \/ ReplayScan \/ ReplayDone
    \/ SelectCtxDone \/ SelectTick \/ PollScan \/ PollReturn
    \/ RunTailReturn

Spec == Init /\ [][Next]_vars

\* The watcher's own steps are taken as long as they are possible, and a
\* select whose ctx.Done() case is ready again and again ends up choosing it
\* (Go chooses uniformly among the ready cases).  Nothing is assumed of the
\* external writers nor of the signal.
FairSpec ==
    /\ Spec
    /\ WF_vars(PollScan) /\ WF_vars(PollReturn)
    /\ SF_vars(SelectCtxDone)

TypeOK ==
    /\ fileExists \in BOOLEAN /\ cancelled \in BOOLEAN
    /\ offset >= 0 /\ pos >= 0
    /\ handles \in 0..2
    /\ Len(emitted) <= MaxEmit

\* ==== the one-shot commands: errors, doctor, prime ====

\* ---- the files the commands are run on ----
\* a line holding a JSON object without the required fields
WrongShapeLine == <<"{", "}", LF>>
\* a line holding a JSON value that is no object
ScalarLine == <<"0", LF>>

MixedLines ==
    {EntryLine(i) : i \in 1..MaxBodies} \cup OtherLines \cup {WrongShapeLine, ScalarLine}
EntryLines == {EntryLine(i) : i \in 1..MaxBodies}

\* the files of exactly n lines taken from lines
RECURSIVE FilesOf(_, _)
FilesOf(lines, n) ==
    IF n = 0 THEN {<<>>}
    ELSE {f \o l : f \in FilesOf(lines, n - 1), l \in lines}

Files ==
    UNION {FilesOf(MixedLines, n) : n \in 0..MaxFileLines}
    \cup UNION {FilesOf(EntryLines, n) : n \in 0..MaxEntries}

\* MaxFileSize and WarnFileSize of doctor.go, in bytes
MaxFileSize == 10485760
WarnFileSize == 8388608

\* info.Size() of a file of the model: a byte of the model stands for a run
\* of bytes of the file, an empty file has none
FileSizes(data) ==
    IF data = <<>> THEN {0}
    ELSE {WarnFileSize - 1, WarnFileSize, WarnFileSize + 1, MaxFileSize, MaxFileSize + 1}

\* ---- the fields of an entry ----
\* time.Now() of the invocation, and time.Hour, in minutes
Now == 100000
Hour == 60

\* a timestamp string: the layout it is written in and the instant it names
Stamp(layout, t) == [layout |-> layout, t |-> t]

ErrorTypes == <<"UNCAUGHT_ERROR", "DATABASE_ERROR", "NETWORK_ERROR", "VALIDATION_ERROR">>
Sources == <<"frontend", "backend">>
Timestamps ==
    <<Stamp("RFC3339", Now - 30), Stamp("millis", Now - 600), Stamp("text", 0),
      Stamp("RFC3339", Now - 3000), Stamp("RFC3339", Now - Hour),
      Stamp("RFC3339", Now + 30)>>

Cycle(seq, i) == seq[((i - 1) % Len(seq)) + 1]

\* the number of the entry body b
BodyNum(b) ==
    CHOOSE i \in 1..Max(Max(MaxBodies, MaxQueryBodies), MaxLines + 1) : ToString(i) = b

\* the ErrorEntry json.Unmarshal fills from the body b; the object without
\* fields leaves every field at its zero value
ErrorEntry(b) ==
    IF b = ""
    THEN [Timestamp |-> Stamp("", 0), Source |-> "", ErrorType |-> "", Message |-> ""]
    ELSE [Timestamp |-> Cycle(Timestamps, BodyNum(b)),
          Source |-> Cycle(Sources, BodyNum(b)),
          ErrorType |-> Cycle(ErrorTypes, BodyNum(b)),
          Message |-> b]

\* ---- errors: readErrors, runErrors ----
\* os.Open of .agentlog/errors.jsonl
Open(dir, exists) ==
    IF dir = "absent" THEN "NotExist"
    ELSE IF dir = "denied" THEN "Permission"
    ELSE IF ~exists THEN "NotExist"
    ELSE "nil"

readErrors(dir, exists, data) ==
    IF Open(dir, exists) # "nil"
    THEN [entries |-> <<>>, err |-> Open(dir, exists)]
    ELSE [entries |-> ScanAll(data),
          err |-> IF TooLong(data) THEN "ReadError" ELSE "nil"]

\* (variant: the limit keeps the oldest entries)
LastN_first(seq, n) ==
    IF n > 0 /\ Len(seq) > n THEN SubSeq(seq, 1, n) ELSE seq

\* the limit of runErrors: the last n of the filtered entries
LastN(seq, n) ==
    IF n > 0 /\ Len(seq) > n THEN SubSeq(seq, Len(seq) - n + 1, Len(seq)) ELSE seq

\* ---- errors: parseSince, filterErrors ----
\* the strings a --since value is drawn from: Stamp(layout, t) with layout ""
\* (the empty string), "duration" (t minutes: "1h" is Stamp("duration", 60)),
\* "date" (YYYY-MM-DD), "RFC3339", "millis" (a timestamp with fractional
\* seconds) and "text" (none of these). An instant is a number of minutes and
\* 0 is the zero time.Time.
EmptySince == "empty since value"
InvalidFormat == "invalid time format: %s (use '1h', '30m', or 'YYYY-MM-DD')"

\* time.ParseDuration accepts the string
ParseDuration(since) == since.layout = "duration"

\* time.Parse under one of the three formats accepts the string; a fractional
\* second after the seconds field is accepted by a layout without one
ParseDate(since) == since.layout \in {"date", "RFC3339", "millis"}

parseSince(since) ==
    IF since.layout = "" THEN [t |-> 0, err |-> EmptySince]
    ELSE IF ParseDuration(since) THEN [t |-> Now - since.t, err |-> "nil"]
    ELSE IF ParseDate(since) THEN [t |-> since.t, err |-> "nil"]
    ELSE [t |-> 0, err |-> InvalidFormat]

\* (variant: an entry at the threshold is dropped too)
Before_orEqual(t, u) == t <= u

\* time.Time.IsZero and time.Time.Before
IsZero(t) == t = 0
Before(t, u) == t < u

\* the entry timestamp under time.RFC3339, then under the layout with
\* milliseconds
ParseEntryTime(ts) ==
    [ok |-> ts.layout \in {"RFC3339", "millis"}, t |-> ts.t]

\* (variant: the type filter is not applied when a source is given)
Kept_sourceOnly(e, source, errType, since) ==
    /\ ~(source # "" /\ e.Source # source)
    /\ ~(source = "" /\ errType # "" /\ e.ErrorType # errType)
    /\ \/ IsZero(since)
       \/ /\ ParseEntryTime(e.Timestamp).ok
          /\ ~Before(ParseEntryTime(e.Timestamp).t, since)

\* the loop body of filterErrors: the entry is appended
Kept(e, source, errType, since) ==
    /\ ~(source # "" /\ e.Source # source)
    /\ ~(errType # "" /\ e.ErrorType # errType)
    /\ \/ IsZero(since)
       \/ /\ ParseEntryTime(e.Timestamp).ok
          /\ ~Before(ParseEntryTime(e.Timestamp).t, since)

filterErrors(es, source, errType, since) ==
    IF source = "" /\ errType = "" /\ IsZero(since)
    THEN es
    ELSE SelectSeq(es, LAMBDA b : Kept(ErrorEntry(b), source, errType, since))

\* the wrapped error runErrors returns for a --since value parseSince rejects
InvalidSince(e) ==
    IF e = EmptySince
    THEN "invalid --since value: empty since value"
    ELSE "invalid --since value: invalid time format: %s (use '1h', '30m', or 'YYYY-MM-DD')"

\* the time runErrors filters with: the zero time without --since
SinceOf(since) == IF since.layout # "" THEN parseSince(since) ELSE [t |-> 0, err |-> "nil"]

runErrors(dir, exists, data, source, errType, since, n) ==
    LET r == readErrors(dir, exists, data) IN
    IF r.err # "nil"
    THEN IF r.err = "NotExist"
         THEN [out |-> [NoOutput EXCEPT !.text = InitGuidance], err |-> "nil"]
         ELSE [out |-> NoOutput, err |-> r.err]
    ELSE IF Len(r.entries) = 0
    THEN [out |-> [NoOutput EXCEPT !.text = "No errors recorded yet."], err |-> "nil"]
    ELSE IF SinceOf(since).err # "nil"
    THEN [out |-> NoOutput, err |-> InvalidSince(SinceOf(since).err)]
    ELSE [out |-> [text |-> "formatHuman",
                   entries |-> LastN(filterErrors(r.entries, source, errType,
                                                  SinceOf(since).t), n),
                   total |-> Len(r.entries)],
          err |-> "nil"]

\* ---- doctor: checkHealth ----
HealthCheck(name, status, message) ==
    [Name |-> name, Status |-> status, Message |-> message]

\* os.Stat of .agentlog/errors.jsonl
Stat(dir, exists) ==
    IF dir = "denied" THEN "Permission"
    ELSE IF dir = "absent" \/ ~exists THEN "NotExist"
    ELSE "nil"

checkDirectory(dir) ==
    IF dir = "absent"
    THEN HealthCheck("Directory", "error",
            <<".agentlog directory NOT FOUND. Run 'agentlog init' to create it.">>)
    ELSE HealthCheck("Directory", "ok", <<".agentlog directory exists">>)

checkFile(dir, exists) ==
    IF Stat(dir, exists) = "NotExist"
    THEN HealthCheck("Errors file", "error", <<"File does not exist">>)
    ELSE IF Stat(dir, exists) # "nil"
    THEN HealthCheck("Errors file", "error", <<"Cannot access file: %v">>)
    ELSE HealthCheck("Errors file", "ok", <<"errors.jsonl exists and is readable">>)

\* fileExists(filePath) of doctor.go
statOK(dir, exists) == Stat(dir, exists) = "nil"

\* json.Unmarshal(line, &js) for js of type json.RawMessage: any JSON value
UnmarshalRaw(line) == Unmarshal(line).ok \/ line = <<"0">>

\* the scan loop of checkJSONL over data, lineNum lines having been read
RECURSIVE ScanJSONL(_, _, _)
ScanJSONL(data, lineNum, acc) ==
    IF data = <<>> THEN acc
    ELSE LET tok == ScanLines(data)
             t == TrimSpace(tok.line)
         IN IF TooLong(tok.line) THEN [acc EXCEPT !.scanErr = TRUE]
            ELSE IF t = <<>> THEN ScanJSONL(tok.rest, lineNum + 1, acc)
            ELSE IF ~UnmarshalRaw(t)
            THEN ScanJSONL(tok.rest, lineNum + 1,
                    [acc EXCEPT !.malformedLines = @ + 1,
                                !.malformedLineNums =
                                    IF Len(@) < 5 THEN Append(@, lineNum + 1) ELSE @])
            ELSE ScanJSONL(tok.rest, lineNum + 1, [acc EXCEPT !.validLines = @ + 1])

\* the file is one that checkHealth found with os.Stat; it opens
checkJSONL(data) ==
    LET acc == ScanJSONL(data, 0, [validLines |-> 0, malformedLines |-> 0,
                                   malformedLineNums |-> <<>>, scanErr |-> FALSE])
    IN IF acc.scanErr
       THEN HealthCheck("JSONL format", "error", <<"Error reading file: %v">>)
       ELSE IF acc.malformedLines > 0
       THEN HealthCheck("JSONL format", "warning",
                <<"%d malformed/invalid JSON lines (lines: %s). %d valid entries.",
                  acc.malformedLines, acc.malformedLineNums, acc.validLines>>)
       ELSE HealthCheck("JSONL format", "ok",
                <<"All %d entries are valid JSON", acc.validLines>>)

checkFileSize(size) ==
    IF size > MaxFileSize
    THEN HealthCheck("File size", "error",
            <<"File size (%.1fMB) exceeds 10MB limit. Rotation needed.">>)
    ELSE IF size > WarnFileSize
    THEN HealthCheck("File size", "warning",
            <<"File is large (%.1fMB). Approaching 10MB limit. Consider rotation.">>)
    ELSE HealthCheck("File size", "ok", <<"File size OK (%.2fMB)">>)

CountStatus(checks, status) ==
    Cardinality({i \in DOMAIN checks : checks[i].Status = status})

generateSummary(checks) ==
    IF CountStatus(checks, "error") > 0
    THEN <<"%d issues found. See details above.", CountStatus(checks, "error")>>
    ELSE IF CountStatus(checks, "warning") > 0
    THEN <<"All checks passed with %d warning(s).", CountStatus(checks, "warning")>>
    ELSE <<"All checks passed. agentlog is healthy.">>

NotInitialized == <<"agentlog is not initialized. Run 'agentlog init' to set up.">>

\* (variant: the report goes on after a failed directory check)
DirFatal_never(dirCheck) == FALSE

\* if dirCheck.Status == "error": the report ends with the directory check
DirFatal(dirCheck) == dirCheck.Status = "error"

\* (variant: no size check)
SizeChecked_never(dir, exists) == FALSE

\* the second if fileExists(errorsFile): the size check runs
SizeChecked(dir, exists) == statOK(dir, exists)

checkHealth(dir, exists, data, size) ==
    LET dirCheck == checkDirectory(dir)
        fileCheck == checkFile(dir, exists)
        \* append stores a copy of fileCheck: the assignments to the local
        \* variable that follow it do not reach result.Checks
        checks2 == <<dirCheck, fileCheck>>
        fileCheckLocal ==
            IF fileCheck.Status = "error" /\ fileCheck.Message = <<"File does not exist">>
            THEN HealthCheck("Errors file", "ok",
                    <<"errors.jsonl not yet created (will be created on first error)">>)
            ELSE fileCheck
        jsonlCheck == checkJSONL(data)
        checks3 == IF statOK(dir, exists) THEN Append(checks2, jsonlCheck) ELSE checks2
        status3 ==
            IF ~statOK(dir, exists) THEN "healthy"
            ELSE IF jsonlCheck.Status = "error" THEN "unhealthy"
            ELSE IF jsonlCheck.Status = "warning" THEN "warning"
            ELSE "healthy"
        sizeCheck == checkFileSize(size)
        checks4 == IF SizeChecked(dir, exists) THEN Append(checks3, sizeCheck) ELSE checks3
        status4 ==
            IF SizeChecked(dir, exists) /\ sizeCheck.Status = "warning" /\ status3 = "healthy"
            THEN "warning" ELSE status3
    IN IF DirFatal(dirCheck)
       THEN [Status |-> "unhealthy", Checks |-> <<dirCheck>>, Summary |-> NotInitialized]
       ELSE [Status |-> status4, Checks |-> checks4, Summary |-> generateSummary(checks4)]

\* ---- prime: generatePrimeSummary ----
\* time.Parse(time.RFC3339Nano, ts), then time.Parse(time.RFC3339, ts)
ParseTimestamp(ts) ==
    [ok |-> ts.layout \in {"RFC3339", "millis"}, t |-> ts.t]

\* the entries the aggregation loop reaches the counters with
Parsed(es) == SelectSeq(es, LAMBDA b : ParseTimestamp(ErrorEntry(b).Timestamp).ok)

\* the map errorTypeCounts / sourceCounts after the loop over es, keyed by
\* the field key of the entries
CountsBy(es, key) ==
    [k \in {ErrorEntry(es[i])[key] : i \in DOMAIN es} |->
        Cardinality({i \in DOMAIN es : ErrorEntry(es[i])[key] = k})]

Min(a, b) == IF a < b THEN a ELSE b

\* the orders in which the keys of counts can stand after the range over the
\* map (an unspecified order) and sort.Slice by descending count (not stable)
Sorted(counts) ==
    LET keys == DOMAIN counts
        n == Cardinality(keys)
    IN {p \in [1..n -> keys] :
            /\ \A i, j \in 1..n : i # j => p[i] # p[j]
            /\ \A i \in 1..(n - 1) : counts[p[i]] >= counts[p[i + 1]]}

\* number of pairs of a top list: the n of topN(errorTypeCounts, 3)
TopCount == 3

topN(counts, n) ==
    {[i \in 1..Min(n, Len(p)) |-> [ErrorType |-> p[i], Count |-> counts[p[i]]]] :
        p \in Sorted(counts)}

topNSources(counts, n) ==
    {[i \in 1..Min(n, Len(p)) |-> [Source |-> p[i], Count |-> counts[p[i]]]] :
        p \in Sorted(counts)}

\* (variant: the percentage is rounded up)
Percentage_ceil(count, total) == (count * 100 + total - 1) \div total

Percentage(count, total) == (count * 100) \div total

generateTip(total, topTypes, topSources) ==
    IF total = 0 THEN <<>>
    ELSE IF Len(topTypes) = 0 \/ Len(topSources) = 0 THEN <<>>
    ELSE <<"Focus on %s in %s - %d%% of errors", topTypes[1].ErrorType,
           topSources[1].Source, Percentage(topTypes[1].Count, total)>>

\* (variant: the window is the hour that starts at now.Add(-d))
Within_window(es, d) ==
    Cardinality({i \in DOMAIN es :
        /\ ParseTimestamp(ErrorEntry(es[i]).Timestamp).t > Now - d
        /\ ParseTimestamp(ErrorEntry(es[i]).Timestamp).t <= Now - d + Hour})

\* ts.After(now.Add(-d)) counted over the entries whose timestamp parses
Within(es, d) ==
    Cardinality({i \in DOMAIN es :
        ParseTimestamp(ErrorEntry(es[i]).Timestamp).t > Now - d})

\* (variant: a read that failed otherwise is reported as a missing file too)
NoLogFileOn_any(e) == TRUE

\* if os.IsNotExist(err): summary.NoLogFile = true, no error
NoLogFileOn(e) == e = "NotExist"

\* the summaries generatePrimeSummary can return, with its error
generatePrimeSummary(dir, exists, data) ==
    LET r == readErrors(dir, exists, data)
        es == Parsed(r.entries)
    IN IF r.err # "nil"
       THEN IF NoLogFileOn(r.err)
            THEN {[summary |-> [ZeroSummary EXCEPT !.NoLogFile = TRUE], err |-> "nil"]}
            ELSE {[summary |-> ZeroSummary, err |-> r.err]}
       ELSE IF Len(r.entries) = 0
       THEN {[summary |-> ZeroSummary, err |-> "nil"]}
       ELSE {[summary |->
                [TotalErrors |-> Len(r.entries),
                 LastHourErrors |-> Within(es, Hour),
                 Last24hErrors |-> Within(es, 24 * Hour),
                 TopErrorTypes |-> tt,
                 TopSources |-> ts,
                 ActionableTip |-> generateTip(Len(r.entries), tt, ts),
                 NoLogFile |-> FALSE],
              err |-> "nil"] :
                tt \in topN(CountsBy(es, "ErrorType"), TopCount),
                ts \in topNSources(CountsBy(es, "Source"), TopCount)}

\* ---- the commands as steps ----
\* a command is run on a directory in any of its states; no watcher runs
\* and nothing writes to the file meanwhile
CmdInit ==
    /\ agentlogDir \in {"absent", "ok", "denied"}
    /\ fileExists \in (IF agentlogDir = "absent" THEN {FALSE} ELSE BOOLEAN)
    /\ content \in (IF fileExists /\ agentlogDir = "ok" THEN Files ELSE {<<>>})
    /\ fileSize \in FileSizes(content)
    /\ nOther = 0
    /\ wpending = <<>>
    /\ nextId = 1
    /\ pc = "stat"
    /\ offset = 0
    /\ err = "nil"
    /\ ret = "none"
    /\ buf = <<>>
    /\ pos = 0
    /\ scanErr = FALSE
    /\ handles = 0
    /\ emitted = <<>>
    /\ cancelled = FALSE
    /\ msg = ""
    /\ runErr = "none"
    /\ existing = <<>>
    /\ appendOnly = TRUE
    /\ wholeLines = TRUE
    /\ signalState = "none"
    /\ NoCommand /\ NoFlags /\ NoCall

ReadErrors ==
    /\ cmd = "none"
    /\ cmd' = "readErrors"
    /\ entries' = readErrors(agentlogDir, fileExists, content).entries
    /\ readErr' = readErrors(agentlogDir, fileExists, content).err
    /\ UNCHANGED <<stdout, cmdErr, result, summary, flagVars, callVars>>
    /\ content' = OpenFile(content)
    /\ UNCHANGED <<fileExists, wpending, nextId, nOther>>
    /\ UNCHANGED <<tailVars, histVars, cancelled, fsVars>>

RunErrors ==
    /\ cmd = "none"
    /\ cmd' = "runErrors"
    /\ entries' = readErrors(agentlogDir, fileExists, content).entries
    /\ readErr' = readErrors(agentlogDir, fileExists, content).err
    /\ stdout' = runErrors(agentlogDir, fileExists, content,
                           errorsSource, errorsType, errorsSince, limit).out
    /\ cmdErr' = runErrors(agentlogDir, fileExists, content,
                           errorsSource, errorsType, errorsSince, limit).err
    /\ UNCHANGED <<result, summary, flagVars, callVars>>
    /\ content' = OpenFile(content)
    /\ UNCHANGED <<fileExists, wpending, nextId, nOther>>
    /\ UNCHANGED <<tailVars, histVars, cancelled, fsVars>>

CheckHealth ==
    /\ cmd = "none"
    /\ cmd' = "checkHealth"
    /\ result' = checkHealth(agentlogDir, fileExists, content, fileSize)
    /\ UNCHANGED <<entries, readErr, stdout, cmdErr, summary, flagVars, callVars>>
    /\ content' = OpenFile(content)
    /\ UNCHANGED <<fileExists, wpending, nextId, nOther>>
    /\ UNCHANGED <<tailVars, histVars, cancelled, fsVars>>

GeneratePrimeSummary ==
    /\ cmd = "none"
    /\ cmd' = "generatePrimeSummary"
    /\ entries' = readErrors(agentlogDir, fileExists, content).entries
    /\ readErr' = readErrors(agentlogDir, fileExists, content).err
    /\ \E s \in generatePrimeSummary(agentlogDir, fileExists, content) :
        /\ summary' = s.summary
        /\ cmdErr' = s.err
    /\ UNCHANGED <<stdout, result, flagVars, callVars>>
    /\ content' = OpenFile(content)
    /\ UNCHANGED <<fileExists, wpending, nextId, nOther>>
    /\ UNCHANGED <<tailVars, histVars, cancelled, fsVars>>

CmdNext == ReadErrors \/ RunErrors \/ CheckHealth \/ GeneratePrimeSummary

CmdSpec == CmdInit /\ [][CmdNext]_vars

\* ---- the errors command with its flags ----
\* no watcher has started and no writer has written
NoWatcher ==
    /\ nOther = 0
    /\ wpending = <<>>
    /\ nextId = 1
    /\ pc = "stat"
    /\ offset = 0
    /\ err = "nil"
    /\ ret = "none"
    /\ buf = <<>>
    /\ pos = 0
    /\ scanErr = FALSE
    /\ handles = 0
    /\ emitted = <<>>
    /\ cancelled = FALSE
    /\ msg = ""
    /\ runErr = "none"
    /\ existing = <<>>
    /\ appendOnly = TRUE
    /\ wholeLines = TRUE
    /\ signalState = "none"

QueryFiles ==
    UNION {FilesOf({EntryLine(i) : i \in 1..MaxQueryBodies}, n) : n \in 0..MaxQueryEntries}

\* the values of --since: none, "1h", the zero date, a date, a timestamp,
\* a timestamp with milliseconds, and a string that is none of these
Sinces ==
    {Stamp("", 0), Stamp("duration", Hour), Stamp("date", 0), Stamp("date", Now - 3000),
     Stamp("RFC3339", Now - 600), Stamp("millis", Now - 30), Stamp("text", 0)}

\* the values of --limit
Limits == {0 - 1, 0, 1, 2}

QueryInit ==
    /\ agentlogDir = "ok"
    /\ fileExists \in BOOLEAN
    /\ content \in (IF fileExists THEN QueryFiles ELSE {<<>>})
    /\ fileSize = Len(content)
    /\ NoWatcher
    /\ NoCommand /\ NoCall
    /\ errorsSource \in {"", Sources[1]}
    /\ errorsType \in {"", ErrorTypes[1], ErrorTypes[2]}
    /\ errorsSince \in Sinces
    /\ limit \in Limits

\* parseSince(errorsSince)
ParseSince ==
    /\ cmd = "none"
    /\ cmd' = "parseSince"
    /\ sinceTime' = parseSince(errorsSince).t
    /\ sinceErr' = parseSince(errorsSince).err
    /\ UNCHANGED <<entries, readErr, stdout, cmdErr, result, summary, flagVars>>
    /\ UNCHANGED <<filtered, entry, jsonMode, output, decoded>>
    /\ UNCHANGED <<envVars, tailVars, histVars, cancelled, fsVars>>

\* filterErrors(entries, errorsSource, errorsType, sinceTime) on the entries
\* of the file and the time --since names (the zero time if it names none)
FilterErrors ==
    /\ cmd = "none"
    /\ cmd' = "filterErrors"
    /\ entries' = ScanAll(content)
    /\ sinceTime' = parseSince(errorsSince).t
    /\ filtered' = filterErrors(ScanAll(content), errorsSource, errorsType,
                                parseSince(errorsSince).t)
    /\ UNCHANGED <<readErr, stdout, cmdErr, result, summary, flagVars>>
    /\ UNCHANGED <<sinceErr, entry, jsonMode, output, decoded>>
    /\ UNCHANGED <<envVars, tailVars, histVars, cancelled, fsVars>>

QueryNext == RunErrors \/ ParseSince \/ FilterErrors \/ GeneratePrimeSummary

QuerySpec == QueryInit /\ [][QueryNext]_vars

\* ---- tail: formatTailEntry and the decoding of its line ----
\* A Context is nil or a map; a map is the sequence of its members
\* [key, kind, v] in the order of their keys, v being the characters of a
\* string or the digits of a float64.
NilContext == [nil |-> TRUE, m |-> <<>>]
Contexts ==
    {NilContext,
     [nil |-> FALSE, m |-> <<>>],
     [nil |-> FALSE, m |-> <<[key |-> "endpoint", kind |-> "string", v |-> <<"/", "<", "a">>]>>],
     [nil |-> FALSE, m |-> <<[key |-> "status", kind |-> "float64", v |-> <<"4", "2">>]>>],
     [nil |-> FALSE, m |-> <<[key |-> "ratio", kind |-> "float64", v |-> <<"NaN">>]>>]}

\* the entries formatTailEntry is given: the fields of a line and a Context
TailEntries ==
    {[Timestamp |-> ErrorEntry(ToString(i)).Timestamp,
      Source |-> ErrorEntry(ToString(i)).Source,
      ErrorType |-> ErrorEntry(ToString(i)).ErrorType,
      Message |-> ErrorEntry(ToString(i)).Message,
      Context |-> c] : i \in 1..MaxQueryBodies, c \in Contexts}

\* encoding/json writes a string with <, > and & as \u003c, \u003e, \u0026
\* and reads the escapes back
Escape(c) == IF c = "<" THEN "\\u003c" ELSE c
Unescape(c) == IF c = "\\u003c" THEN "<" ELSE c

\* json.Marshal of a value of a Context: a float64 that is no number is an
\* UnsupportedValueError
MarshalValue(x) ==
    IF x.kind = "string"
    THEN [ok |-> TRUE, kind |-> "string", text |-> [i \in DOMAIN x.v |-> Escape(x.v[i])]]
    ELSE IF x.v = <<"NaN">>
    THEN [ok |-> FALSE, kind |-> "number", text |-> <<>>]
    ELSE [ok |-> TRUE, kind |-> "number", text |-> x.v]

\* a JSON value read into an interface{}: a string or a float64
UnmarshalValue(j) ==
    IF j.kind = "string"
    THEN [kind |-> "string", v |-> [i \in DOMAIN j.text |-> Unescape(j.text[i])]]
    ELSE [kind |-> "float64", v |-> j.text]

\* a line of output: the JSON object {} of no member
EmptyObject ==
    [format |-> "json", keys |-> {}, timestamp |-> Stamp("", 0), source |-> "",
     error_type |-> "", message |-> "", context |-> <<>>]

\* json.Marshal(entry): the four string members, and the member context
\* unless the map is empty (omitempty)
Marshal(e) ==
    IF \E i \in DOMAIN e.Context.m : ~MarshalValue(e.Context.m[i]).ok
    THEN [ok |-> FALSE, object |-> EmptyObject]
    ELSE [ok |-> TRUE,
          object |->
            [format |-> "json",
             keys |-> {"timestamp", "source", "error_type", "message"}
                        \cup (IF Len(e.Context.m) > 0 THEN {"context"} ELSE {}),
             timestamp |-> e.Timestamp, source |-> e.Source,
             error_type |-> e.ErrorType, message |-> e.Message,
             context |-> IF Len(e.Context.m) > 0
                         THEN [i \in DOMAIN e.Context.m |->
                                 [key |-> e.Context.m[i].key,
                                  kind |-> MarshalValue(e.Context.m[i]).kind,
                                  text |-> MarshalValue(e.Context.m[i]).text]]
                         ELSE <<>>]]

formatTailEntry(e, mode) ==
    IF mode
    THEN IF ~Marshal(e).ok THEN EmptyObject ELSE Marshal(e).object
    ELSE [format |-> "human", keys |-> {}, timestamp |-> e.Timestamp, source |-> e.Source,
          error_type |-> e.ErrorType, message |-> e.Message, context |-> <<>>]

\* json.Unmarshal of a line into a zero ErrorEntry: a member fills its field,
\* a field without member keeps its zero value
UnmarshalEntry(o) ==
    IF o.format # "json" THEN [ok |-> FALSE, entry |-> ZeroEntry]
    ELSE [ok |-> TRUE,
          entry |->
            [Timestamp |-> IF "timestamp" \in o.keys THEN o.timestamp ELSE Stamp("", 0),
             Source |-> IF "source" \in o.keys THEN o.source ELSE "",
             ErrorType |-> IF "error_type" \in o.keys THEN o.error_type ELSE "",
             Message |-> IF "message" \in o.keys THEN o.message ELSE "",
             Context |-> IF "context" \in o.keys
                         THEN [nil |-> FALSE,
                               m |-> [i \in DOMAIN o.context |->
                                        [key |-> o.context[i].key,
                                         kind |-> UnmarshalValue(o.context[i]).kind,
                                         v |-> UnmarshalValue(o.context[i]).v]]]
                         ELSE NilContext]]

FormatInit ==
    /\ agentlogDir = "ok"
    /\ fileExists = TRUE
    /\ content = <<>>
    /\ fileSize = 0
    /\ NoWatcher
    /\ NoCommand /\ NoFlags
    /\ sinceTime = 0
    /\ sinceErr = "nil"
    /\ filtered = <<>>
    /\ entry \in TailEntries
    /\ jsonMode \in BOOLEAN
    /\ output = <<>>
    /\ decoded = ZeroEntry

\* fmt.Fprintln(w, formatTailEntry(entry, jsonMode))
FormatTailEntry ==
    /\ cmd = "none"
    /\ cmd' = "formatTailEntry"
    /\ output' = formatTailEntry(entry, jsonMode)
    /\ UNCHANGED <<entries, readErr, stdout, cmdErr, result, summary, flagVars>>
    /\ UNCHANGED <<sinceTime, sinceErr, filtered, entry, jsonMode, decoded>>
    /\ UNCHANGED <<envVars, tailVars, histVars, cancelled, fsVars>>

\* the reader of the line decodes it: json.Unmarshal(line, &decoded)
UnmarshalLine ==
    /\ cmd = "formatTailEntry"
    /\ cmd' = "Unmarshal"
    /\ decoded' = UnmarshalEntry(output).entry
    /\ UNCHANGED <<entries, readErr, stdout, cmdErr, result, summary, flagVars>>
    /\ UNCHANGED <<sinceTime, sinceErr, filtered, entry, jsonMode, output>>
    /\ UNCHANGED <<envVars, tailVars, histVars, cancelled, fsVars>>

FormatNext == FormatTailEntry \/ UnmarshalLine

FormatSpec == FormatInit /\ [][FormatNext]_vars

\* ---- the watcher and the commands on one file ----
\* an external writer appends an entry line; the size the commands see is
\* the size of the file that holds it
WriterAppendSized ==
    /\ Running
    /\ fileExists /\ wpending = <<>>
    /\ Written < MaxLines
    /\ content' = content \o EntryLine(nextId)
    /\ nextId' = nextId + 1
    /\ fileSize' \in {WarnFileSize - 1, MaxFileSize + 1}
    /\ UNCHANGED <<fileExists, wpending, nOther, cancelled, agentlogDir>>
    /\ UNCHANGED <<outVars, flagVars, callVars>>
    /\ UNCHANGED tailVars /\ UNCHANGED histVars

\* a tail session and one command are run while the writer writes
FrameNext ==
    \/ WriterAppendSized \/ Cancel
    \/ TailFileStat \/ TailFileOpen \/ ReplayScan \/ ReplayDone
    \/ SelectCtxDone \/ SelectTick \/ PollScan \/ PollReturn
    \/ RunTailReturn
    \/ ReadErrors \/ RunErrors \/ CheckHealth \/ GeneratePrimeSummary

FrameSpec == Init /\ [][FrameNext]_vars

\* ---- helpers of the properties ----
Count(seq, e) == Cardinality({i \in DOMAIN seq : seq[i] = e})

IsPrefix(s, t) == Len(s) <= Len(t) /\ SubSeq(t, 1, Len(s)) = s

\* the lines of data with the offsets of their first byte and of the byte
\* after their last one (the LF included when there is one)
RECURSIVE LinesAt(_, _)
LinesAt(data, start) ==
    IF data = <<>> THEN <<>>
    ELSE LET tok == ScanLines(data)
             used == Len(data) - Len(tok.rest)
         IN <<[line |-> tok.line, start |-> start, end |-> start + used,
               complete |-> data[used] = LF]>>
            \o LinesAt(tok.rest, start + used)

Lines == LinesAt(content, 0)

\* a step in which a call of readNewEntries returns
PollEnds ==
    \/ pc = "select" /\ pc' # "poll" /\ ret' # "Canceled" /\ tailVars' # tailVars
    \/ pc = "poll" /\ pc' # "poll"

IsValid(line) == LoopBody(line) # <<>>
EntryOf(line) == LoopBody(line)[1]

\* ---- C1 ----
\* C1: a session started on an existing file emits the entries of the valid
\* lines the file held, in file order, before anything else, and every valid
\* line appended later as a whole line is emitted exactly once, in file
\* order, whatever malformed lines surround it.
C1_Claim ==
    (appendOnly /\ wholeLines) =>
        /\ state \notin {"INITIALIZING", "REPLAYING_EXISTING"}
              => IsPrefix(existing, emitted)
        /\ IsPrefix(emitted, ValidEntries(content))
        /\ (pc = "select" /\ offset = Len(content))
              => emitted = ValidEntries(content)

\* ---- C2 ----
\* C2: between two polls the offset separates what was emitted from what was
\* not: a valid line ending at or before the offset was emitted exactly
\* once, a line starting at or after it was never emitted; also after a poll
\* whose read failed.
C2_Claim ==
    (pc = "select" /\ fileExists /\ appendOnly /\ wholeLines) =>
        \A i \in DOMAIN Lines :
            IsValid(Lines[i].line) =>
                /\ Lines[i].end <= offset => Count(emitted, EntryOf(Lines[i].line)) = 1
                /\ Lines[i].start >= offset => Count(emitted, EntryOf(Lines[i].line)) = 0

\* ---- C3 ----
Moves ==
    { <<"INITIALIZING", "REPLAYING_EXISTING">>, <<"INITIALIZING", "ERRORED">>,
      <<"REPLAYING_EXISTING", "POLLING">>, <<"REPLAYING_EXISTING", "ERRORED">>,
      <<"POLLING", "STOPPED">>, <<"POLLING", "ERRORED">> }

\* C3: the session only moves INITIALIZING -> REPLAYING_EXISTING -> POLLING ->
\* STOPPED or ERRORED (ERRORED also from the first two); the replay is
\* entered once, and in a final state nothing is emitted or read any more and
\* the state stays.
C3_Thm ==
    [][ /\ state' # state => <<state, state'>> \in Moves
        /\ state \in Terminal =>
              UNCHANGED <<emitted, offset, err, ret, buf, pos, scanErr, handles>>
      ]_vars

C3_Wit == state = "STOPPED" /\ Len(emitted) > Len(existing) /\ pc = "exit"

\* ---- C4 ----
\* C4: a line an external writer has only partly written is not consumed:
\* while the last line of the file has no LF, the offset is not past its
\* first byte and its entry is not emitted.
C4_Claim ==
    (pc = "select" /\ fileExists /\ appendOnly /\ Lines # <<>>
        /\ ~Lines[Len(Lines)].complete) =>
        /\ offset <= Lines[Len(Lines)].start
        /\ IsValid(Lines[Len(Lines)].line)
              => Count(emitted, EntryOf(Lines[Len(Lines)].line)) = 0

\* ---- C5 ----
\* C5: a poll that finds the offset beyond the end of the file starts again
\* from offset 0, so it reads the whole of the file as it is now.
C5_Claim ==
    [][ (pc = "select" /\ pc' = "poll" /\ offset > Len(content))
            => (buf' = content /\ pos' = Len(content)) ]_vars

\* ---- C6 ----
\* C6 as stated: a poll that fails (open, seek or read) ends the session: the
\* watcher is never in POLLING with the error of a failed read behind it.
C6_Claim == state = "POLLING" => err = "nil"

\* C6 amended: a poll that finds the file absent ends the session in ERRORED;
\* a poll whose open fails for another reason or whose read fails leaves the
\* watcher in POLLING, back at its select with the offset unchanged and only
\* the file of tailFile open, and the read is tried again at the next tick.
C6_Thm ==
    [][ /\ (PollEnds /\ err' \notin {"nil", "NotExist"})
            => (state' = "POLLING" /\ pc' = "select" /\ offset' = offset
                /\ handles' = 1 /\ ret' = "none")
        /\ (PollEnds /\ err' = "NotExist")
            => (state' = "ERRORED" /\ ret' = "NotExist" /\ handles' = 0)
      ]_vars

C6_Wit ==
    /\ state = "POLLING" /\ err = "TooLong"
    /\ \E i \in DOMAIN emitted : Count(emitted, emitted[i]) = 2

\* ---- C7 ----
\* C7: a poll that finds the file absent ends the session there: ERRORED, the
\* not-exist error returned, nothing emitted by that poll nor after it.
C7_Thm ==
    [][ /\ (pc = "select" /\ ~fileExists /\ PollEnds)
            => (state' = "ERRORED" /\ ret' = "NotExist" /\ err' = "NotExist"
                /\ emitted' = emitted)
        /\ (ret = "NotExist") => (emitted' = emitted /\ state' = "ERRORED")
      ]_vars

C7_Wit == state = "ERRORED" /\ err = "NotExist" /\ ret = "NotExist" /\ emitted # <<>>

\* ---- C8 ----
\* C8: started without errors.jsonl, tailFile returns the not-exist error at
\* once, without an entry emitted, a file opened or a poll made, and runTail
\* prints the 'agentlog init' guidance.
C8_Thm ==
    /\ [][ (pc = "stat" /\ ~fileExists /\ pc' # pc)
              => (state' = "ERRORED" /\ ret' = "NotExist") ]_vars
    /\ [](  (ret = "NotExist" /\ err = "nil")
              => /\ emitted = <<>> /\ offset = 0 /\ handles = 0
                 /\ pc = "exit" => (msg = InitGuidance /\ runErr = "nil") )

C8_Wit == pc = "exit" /\ ret = "NotExist" /\ err = "nil" /\ msg = InitGuidance

\* ---- C9 ----
\* C9 as stated: once the signal is raised in POLLING the watcher leaves
\* POLLING for STOPPED only.
C9_Claim ==
    [][ (signalState = "POLLING" /\ state = "POLLING")
            => state' \in {"POLLING", "STOPPED"} ]_vars

\* C9 amended: once the signal is raised in POLLING the watcher reaches a
\* final state: STOPPED with the context's error, or ERRORED with the
\* not-exist error of a poll chosen before the signal was observed.  STOPPED
\* is entered from the select only (a poll under way is completed), nothing
\* is emitted after it, and no file handle is open once tailFile returned.
C9_Thm ==
    /\ (signalState = "POLLING") ~> (state \in Terminal)
    /\ [][ /\ (signalState = "POLLING" /\ state = "POLLING" /\ state' # "POLLING")
              => (state' = "STOPPED" \/ ret' = "NotExist")
           /\ (state # "STOPPED" /\ state' = "STOPPED")
              => (pc = "select" /\ cancelled /\ ret' = "Canceled" /\ emitted' = emitted)
           /\ state = "STOPPED" => emitted' = emitted
         ]_vars
    /\ [](state \in Terminal => handles = 0)

C9_Wit ==
    /\ signalState = "POLLING" /\ state = "STOPPED" /\ handles = 0
    /\ Len(emitted) > Len(existing) /\ pc = "exit"

\* ---- C10 ----
\* C10: the offset never decreases, and it is unchanged by a read that fails.
C10_Thm ==
    [][ /\ offset' >= offset
        /\ err' # "nil" => offset' = offset ]_vars

C10_Wit ==
    /\ pc = "select" /\ err = "nil" /\ fileExists
    /\ offset > Len(content) /\ Len(emitted) > Len(existing)

\* ---- helpers of the properties of the one-shot commands ----
\* the log file is missing, as os.Open reports it
Missing == agentlogDir = "absent" \/ (agentlogDir = "ok" /\ ~fileExists)
\* the log file exists, can be opened, and is empty
Empty == agentlogDir = "ok" /\ fileExists /\ content = <<>>
Readable == agentlogDir = "ok" /\ fileExists

\* a valid line: a JSON object whose four required fields are non-empty
ValidShape(line) ==
    LET t == TrimSpace(line) IN
    /\ ~TooLong(line)
    /\ Unmarshal(t).ok
    /\ ErrorEntry(Unmarshal(t).entry).Timestamp.layout # ""
    /\ ErrorEntry(Unmarshal(t).entry).Source # ""
    /\ ErrorEntry(Unmarshal(t).entry).ErrorType # ""
    /\ ErrorEntry(Unmarshal(t).entry).Message # ""

Blank(line) == TrimSpace(line) = <<>>

\* the entries of the valid lines of data, in file order
RECURSIVE ValidShapeEntries(_)
ValidShapeEntries(data) ==
    IF data = <<>> THEN <<>>
    ELSE LET tok == ScanLines(data) IN
         (IF ValidShape(tok.line) THEN <<Unmarshal(TrimSpace(tok.line)).entry>> ELSE <<>>)
         \o ValidShapeEntries(tok.rest)

\* ---- C11 ----
\* C11: readErrors on a file of valid lines interleaved with blank and
\* malformed lines (not JSON, JSON of the wrong shape, over-long) returns
\* exactly the entries of the valid lines, in file order, with no error.
C11_Claim ==
    (cmd = "readErrors" /\ Readable) =>
        /\ readErr = "nil"
        /\ entries = ValidShapeEntries(content)

CheckNames(checks) == [i \in DOMAIN checks |-> checks[i].Name]
HasCheck(checks, name) == \E i \in DOMAIN checks : checks[i].Name = name

\* the worst of the statuses of the checks, as an overall status
Worst(checks) ==
    IF CountStatus(checks, "error") > 0 THEN "unhealthy"
    ELSE IF CountStatus(checks, "warning") > 0 THEN "warning"
    ELSE "healthy"

HealthySummary == <<"All checks passed. agentlog is healthy.">>

\* ---- C13 ----
\* C13: with the .agentlog directory present and errors.jsonl not created
\* yet, the report of checkHealth has a log-file check of status ok, no
\* JSONL and no size check, overall status healthy and a summary without
\* any issue.
C13_Claim ==
    (cmd = "checkHealth" /\ agentlogDir = "ok" /\ ~fileExists) =>
        /\ \E i \in DOMAIN result.Checks :
               result.Checks[i].Name = "Errors file" /\ result.Checks[i].Status = "ok"
        /\ \A i \in DOMAIN result.Checks : result.Checks[i].Status # "error"
        /\ ~HasCheck(result.Checks, "JSONL format")
        /\ ~HasCheck(result.Checks, "File size")
        /\ result.Status = "healthy"
        /\ result.Summary = HealthySummary

\* ---- C14 ----
\* C14: the overall status of every report of checkHealth is the worst of
\* the statuses of the checks it lists: unhealthy iff some check is error,
\* warning iff none is error and some is warning, healthy iff all are ok.
C14_Claim ==
    cmd = "checkHealth" => result.Status = Worst(result.Checks)

\* ---- C15 ----
\* C15: without a .agentlog directory the report is unhealthy and holds
\* exactly one check, the directory check with status error; no file, JSONL
\* or size check runs, and the summary says to run 'agentlog init'.
C15_Thm ==
    (cmd = "checkHealth" /\ agentlogDir = "absent") =>
        /\ result.Status = "unhealthy"
        /\ Len(result.Checks) = 1
        /\ result.Checks[1].Name = "Directory"
        /\ result.Checks[1].Status = "error"
        /\ result.Summary = NotInitialized

C15_Wit ==
    /\ cmd = "checkHealth" /\ agentlogDir = "absent"
    /\ result.Status = "unhealthy" /\ CheckNames(result.Checks) = <<"Directory">>

\* ---- C16 ----
\* the JSONL check of the report, and the counts its message reports (-1
\* when it reports none)
JSONLCheck == result.Checks[CHOOSE i \in DOMAIN result.Checks :
                                result.Checks[i].Name = "JSONL format"]
MalformedReported ==
    IF JSONLCheck.Status = "warning" THEN JSONLCheck.Message[2]
    ELSE IF JSONLCheck.Status = "ok" THEN 0 ELSE 0 - 1
ValidReported ==
    IF JSONLCheck.Status = "warning" THEN JSONLCheck.Message[4]
    ELSE IF JSONLCheck.Status = "ok" THEN JSONLCheck.Message[2] ELSE 0 - 1

NonBlank == {i \in DOMAIN Lines : ~Blank(Lines[i].line)}

\* C16: for every log file the malformed-line count of the JSONL check is
\* the number of non-blank lines that are not JSON or are JSON of an invalid
\* shape, and its valid count is the number of the other non-blank lines.
C16_Claim ==
    (cmd = "checkHealth" /\ HasCheck(result.Checks, "JSONL format")) =>
        /\ MalformedReported = Cardinality({i \in NonBlank : ~ValidShape(Lines[i].line)})
        /\ ValidReported = Cardinality({i \in NonBlank : ValidShape(Lines[i].line)})

\* ---- C17 ----
OnlyValidLines == \A i \in DOMAIN Lines : ValidShape(Lines[i].line)

Aggregated == cmd = "generatePrimeSummary" /\ cmdErr = "nil"

\* position of the first entry of es whose field key is k
FirstSeen(es, key, k) ==
    CHOOSE i \in DOMAIN es :
        /\ ErrorEntry(es[i])[key] = k
        /\ \A j \in 1..(i - 1) : ErrorEntry(es[j])[key] # k

NumberOf(es, key, k) == Cardinality({i \in DOMAIN es : ErrorEntry(es[i])[key] = k})

RECURSIVE SumCounts(_)
SumCounts(list) == IF list = <<>> THEN 0 ELSE Head(list).Count + SumCounts(Tail(list))

\* ---- C18 ----
\* C18: each top list of an aggregate holds at most 3 pairs, sorted by
\* descending count, keys of equal count standing in the order of their
\* first occurrence in the entry sequence (so that two aggregations of the
\* same entries give the same lists and the same tip).
C18_Claim ==
    Aggregated =>
        /\ Len(summary.TopErrorTypes) <= 3 /\ Len(summary.TopSources) <= 3
        /\ \A i, j \in DOMAIN summary.TopErrorTypes : i < j =>
            LET a == summary.TopErrorTypes[i]
                b == summary.TopErrorTypes[j]
            IN /\ a.Count >= b.Count
               /\ a.Count = b.Count =>
                    FirstSeen(entries, "ErrorType", a.ErrorType)
                        < FirstSeen(entries, "ErrorType", b.ErrorType)
        /\ \A i, j \in DOMAIN summary.TopSources : i < j =>
            LET a == summary.TopSources[i]
                b == summary.TopSources[j]
            IN /\ a.Count >= b.Count
               /\ a.Count = b.Count =>
                    FirstSeen(entries, "Source", a.Source)
                        < FirstSeen(entries, "Source", b.Source)

\* ---- C19 ----
\* C19: the frequency tables are computed over all the entries of the full
\* read: the count listed for an error type (a source) is the number of
\* entries with this error type (source), whether their timestamp parses or
\* not; so the counts of a table listed in full sum to TotalErrors.
C19_Claim ==
    (Aggregated /\ entries # <<>>) =>
        /\ \A i \in DOMAIN summary.TopErrorTypes :
            summary.TopErrorTypes[i].Count =
                NumberOf(entries, "ErrorType", summary.TopErrorTypes[i].ErrorType)
        /\ \A i \in DOMAIN summary.TopSources :
            summary.TopSources[i].Count =
                NumberOf(entries, "Source", summary.TopSources[i].Source)
        /\ Cardinality({ErrorEntry(entries[i]).ErrorType : i \in DOMAIN entries}) <= TopCount
            => SumCounts(summary.TopErrorTypes) = summary.TotalErrors
        /\ Cardinality({ErrorEntry(entries[i]).Source : i \in DOMAIN entries}) <= TopCount
            => SumCounts(summary.TopSources) = summary.TotalErrors

\* ---- C20 ----
\* C20: an aggregate of no entry has TotalErrors = 0, zero window counts,
\* empty top lists and an empty tip; for entries, the counts of the top
\* error-type list sum to at most TotalErrors, and the percentage of the
\* tip is floor(100 * count of the top error type / TotalErrors), an
\* integer from 0 to 100.
C20_Thm ==
    Aggregated =>
        /\ entries = <<>> =>
            /\ summary.TotalErrors = 0
            /\ summary.LastHourErrors = 0 /\ summary.Last24hErrors = 0
            /\ summary.TopErrorTypes = <<>> /\ summary.TopSources = <<>>
            /\ summary.ActionableTip = <<>>
        /\ entries # <<>> =>
            /\ summary.TotalErrors = Len(entries)
            /\ SumCounts(summary.TopErrorTypes) <= summary.TotalErrors
            /\ summary.ActionableTip # <<>> =>
                LET pct == summary.ActionableTip[4]
                    count == summary.TopErrorTypes[1].Count
                IN /\ pct \in 0..100
                   /\ pct * summary.TotalErrors <= 100 * count
                   /\ 100 * count < (pct + 1) * summary.TotalErrors

C20_Wit ==
    /\ Aggregated /\ Len(entries) = 3
    /\ summary.ActionableTip # <<>>
    /\ summary.ActionableTip[4] = 66
    /\ SumCounts(summary.TopErrorTypes) = 3

\* ==== the query: flags, filters, limit ====

\* ---- C21 ----
\* the --since value is given and is neither a duration nor a date or timestamp
MalformedSince(since) == since.layout # "" /\ ~ParseDuration(since) /\ ~ParseDate(since)

\* C21: every runErrors given a non-empty since string that is neither a
\* duration nor an accepted date or timestamp returns the input error with the
\* accepted-format guidance, whether the log file is missing, empty or holds
\* entries; it never completes successfully.
C21_Claim ==
    (cmd = "runErrors" /\ MalformedSince(errorsSince)) =>
        cmdErr = InvalidSince(InvalidFormat)

\* ---- C22 ----
\* the entry of body b satisfies the dimension dim of the filter values
Satisfies(b, dim, S, T, th) ==
    CASE dim = "source" -> S = "" \/ ErrorEntry(b).Source = S
      [] dim = "type" -> T = "" \/ ErrorEntry(b).ErrorType = T
      [] dim = "since" -> \/ th = 0
                          \/ /\ ErrorEntry(b).Timestamp.layout \in {"RFC3339", "millis"}
                             /\ ErrorEntry(b).Timestamp.t >= th

Dimensions == {"source", "type", "since"}

\* filterErrors with the one dimension dim active
FilterBy(es, dim, S, T, th) ==
    filterErrors(es, IF dim = "source" THEN S ELSE "",
                     IF dim = "type" THEN T ELSE "",
                     IF dim = "since" THEN th ELSE 0)

\* the dimensions applied one after another in the order of the sequence dims
RECURSIVE OneByOne(_, _, _, _, _)
OneByOne(es, dims, S, T, th) ==
    IF dims = <<>> THEN es
    ELSE OneByOne(FilterBy(es, Head(dims), S, T, th), Tail(dims), S, T, th)

Orders == {o \in [1..3 -> Dimensions] : \A d \in Dimensions : \E i \in 1..3 : o[i] = d}

\* C22: filterErrors returns, in the original order, exactly the entries
\* that satisfy every active dimension; an empty or zero value excludes
\* nothing; filtering by source alone gives the entries of that source; the
\* dimensions one after another in any order give what they give together;
\* with all values empty the input is returned unchanged.
C22_Thm ==
    cmd = "filterErrors" =>
        /\ filtered = SelectSeq(entries, LAMBDA b :
               \A dim \in Dimensions :
                   Satisfies(b, dim, errorsSource, errorsType, sinceTime))
        /\ FilterBy(entries, "source", errorsSource, errorsType, sinceTime)
             = SelectSeq(entries, LAMBDA b :
                   errorsSource = "" \/ ErrorEntry(b).Source = errorsSource)
        /\ \A o \in Orders :
               OneByOne(entries, o, errorsSource, errorsType, sinceTime) = filtered
        /\ filterErrors(entries, "", "", 0) = entries

\* all three dimensions are active, an entry is kept and an entry is dropped
C22_Wit ==
    /\ cmd = "filterErrors"
    /\ errorsSource # "" /\ errorsType # "" /\ sinceTime # 0
    /\ Len(filtered) >= 1
    /\ Len(filtered) < Len(entries)

\* ---- C23 ----
Range(seq) == {seq[i] : i \in DOMAIN seq}

\* the timestamp of the entry of body b parses under an accepted format
TimeParses(b) == ErrorEntry(b).Timestamp.layout \in {"RFC3339", "millis"}

\* C23: with a non-zero threshold filterErrors keeps an entry if and only if
\* its timestamp parses and is at or after the threshold (exactly at the
\* threshold it is kept), and no entry whose timestamp does not parse is in
\* a time-filtered result; with no threshold timestamps are not examined
\* and such an entry is kept.
C23_Thm ==
    cmd = "filterErrors" =>
        /\ (sinceTime # 0 /\ errorsSource = "" /\ errorsType = "") =>
               \A i \in DOMAIN entries :
                   entries[i] \in Range(filtered) <=>
                       (TimeParses(entries[i]) /\ ErrorEntry(entries[i]).Timestamp.t >= sinceTime)
        /\ sinceTime # 0 =>
               \A i \in DOMAIN filtered :
                   TimeParses(filtered[i]) /\ ErrorEntry(filtered[i]).Timestamp.t >= sinceTime
        /\ (sinceTime = 0 /\ errorsSource = "" /\ errorsType = "") => filtered = entries

\* an entry exactly at the threshold is kept and an entry whose timestamp
\* does not parse is dropped
C23_Wit ==
    /\ cmd = "filterErrors"
    /\ sinceTime # 0
    /\ \E i \in DOMAIN filtered : ErrorEntry(filtered[i]).Timestamp.t = sinceTime
    /\ \E i \in DOMAIN entries : ~TimeParses(entries[i]) /\ entries[i] \notin Range(filtered)

\* ---- C24 ----
\* the list runErrors filters the entries it read down to
Filtered == filterErrors(entries, errorsSource, errorsType, SinceOf(errorsSince).t)

\* C24: a limit N > 0 is applied after filtering and keeps the most recent
\* entries: the output is the last min(N, number of filtered entries)
\* entries of the filtered list in file order; N <= 0 leaves the filtered
\* list unchanged.
C24_Thm ==
    (cmd = "runErrors" /\ stdout.text = "formatHuman") =>
        LET k == IF limit > 0 THEN Min(limit, Len(Filtered)) ELSE Len(Filtered)
        IN stdout.entries = [i \in 1..k |-> Filtered[Len(Filtered) - k + i]]

\* the limit cuts the filtered list: two different entries pass the filter
\* and the last one is printed
C24_Wit ==
    /\ cmd = "runErrors" /\ stdout.text = "formatHuman"
    /\ limit = 1
    /\ Len(Filtered) = 2 /\ Filtered[1] # Filtered[2]
    /\ stdout.entries = <<Filtered[2]>>

\* ---- C25 ----
\* C25: parseSince returns exactly one of a threshold or an error: now minus
\* d for a duration string d, the parsed instant for a date or a timestamp,
\* and the zero time with an error carrying the accepted-format guidance for
\* the empty string and for every string of neither form.
C25_Claim ==
    cmd = "parseSince" =>
        IF ParseDuration(errorsSince)
        THEN sinceErr = "nil" /\ sinceTime = Now - errorsSince.t
        ELSE IF ParseDate(errorsSince)
        THEN sinceErr = "nil" /\ sinceTime = errorsSince.t
        ELSE sinceTime = 0 /\ sinceErr = InvalidFormat

\* ---- C29 ----
\* C29: every summary generatePrimeSummary returns has
\* 0 <= LastHourErrors <= Last24hErrors <= TotalErrors, whatever the
\* timestamps of the entries (past, future or unparseable).
C29_Thm ==
    cmd = "generatePrimeSummary" =>
        /\ 0 <= summary.LastHourErrors
        /\ summary.LastHourErrors <= summary.Last24hErrors
        /\ summary.Last24hErrors <= summary.TotalErrors

\* the file holds an entry of the future, which is counted in both windows,
\* and an entry whose timestamp does not parse, which is counted in neither
C29_Wit ==
    /\ cmd = "generatePrimeSummary"
    /\ \E i \in DOMAIN entries : ErrorEntry(entries[i]).Timestamp.t > Now
    /\ \E i \in DOMAIN entries : ~ParseTimestamp(ErrorEntry(entries[i]).Timestamp).ok
    /\ summary.LastHourErrors = 1
    /\ summary.Last24hErrors = 1
    /\ summary.TotalErrors = 2

\* ---- C30 ----
\* C30: checkJSONL and readErrors classify lines identically: for every file
\* content the number of lines the JSONL check reports as valid is the number
\* of entries readErrors returns, and the number it reports as malformed is
\* the number of non-blank lines readErrors skips.
C30_Claim ==
    (cmd = "checkHealth" /\ HasCheck(result.Checks, "JSONL format")) =>
        /\ ValidReported = Len(readErrors(agentlogDir, fileExists, content).entries)
        /\ MalformedReported = Cardinality({i \in NonBlank : ~IsValid(Lines[i].line)})

\* ---- C28 ----
\* C28: tail and full read agree: on a file that only grows by whole
\* LF-terminated lines, whenever the watcher is idle between polls with its
\* offset equal to the size of the file, the entries emitted so far by the
\* session (the replay and every poll) are the entries readErrors returns
\* for the content of the file.
C28_Thm ==
    (appendOnly /\ wholeLines /\ fileExists /\ pc = "select" /\ offset = Len(content)) =>
        emitted = readErrors("ok", fileExists, content).entries

\* the watcher is idle at the end of a file that held an entry when the
\* session started and got an entry since; the replay emitted the one and a
\* poll the other
C28_Wit ==
    /\ appendOnly /\ wholeLines /\ fileExists
    /\ pc = "select" /\ offset = Len(content)
    /\ Len(existing) >= 1
    /\ Len(emitted) > Len(existing)

\* ---- C26 ----
\* a step of a core operation: of the tail session (replay, poll) or of a
\* command (full read, query, aggregation, health check)
CoreStep == tailVars' # tailVars \/ cmd' # cmd

WellFormed(e) ==
    /\ e.Timestamp.layout # "" /\ e.Source # "" /\ e.ErrorType # "" /\ e.Message # ""
    /\ \A i \in DOMAIN e.Context.m : MarshalValue(e.Context.m[i]).ok

\* C27: for every well-formed entry E (four non-empty string fields and an
\* optional context map), decoding the JSON line formatTailEntry writes for
\* E in JSON mode yields an entry equal to E.
C27_Claim ==
    (cmd = "Unmarshal" /\ jsonMode /\ WellFormed(entry)) => decoded = entry

====
